---- MODULE Spec2Model ----
(***************************************************************************)
(* Realtime transport core of the Nirnay-112 client:                        *)
(* frontend/nirnay-ui/src/services/socket.js (class WebSocketService) and   *)
(* its caller frontend/nirnay-ui/src/App.jsx.                               *)
(*                                                                          *)
(* One action per handler of the service (connect, ws.onopen, ws.onerror,   *)
(* ws.onclose, the reconnect timer, handleAudioChunk, the idle-flush timer, *)
(* the terminal callbacks of a playback, sendAudioChunk, disconnect) and    *)
(* one per event the browser can deliver to them.  Time is counted in       *)
(* milliseconds; a pending timer fires exactly at its deadline.             *)
(***************************************************************************)
EXTENDS Integers, Sequences, FiniteSets, TLC

\* ---------------------------------------------------------------- bounds
MaxConns == 2       \* WebSocket objects alive (or reserved by a timer) at once
MaxSessions == 2    \* session ids generateSessionId() hands out
MaxFrags == 3       \* binary frames received
MaxChunks == 1      \* audio chunks offered to sendAudioChunk
MaxControl == 1     \* control envelopes (escalate/resolve) the UI sends
MaxStarts == 2      \* calls of startRecording
MaxBlocks == 3      \* sample blocks fed to a capture callback, of any size
MaxStream == 43     \* blocks a running ScriptProcessor delivers
MaxSamples == 3     \* samples of a chunk whose PCM encoding is computed
MaxCallbacks == 2   \* callbacks the caller subscribes with
Resolution == 10000 \* an input sample is a multiple of 1/Resolution

\* ------------------------------------------------------ program constants
maxReconnectAttempts == 5
reconnectDelay == 1000
MaxBackoff == 30000
IdleDelay == 300
NormalClosure == 1000
AbnormalClosure == 1006
GoingAway == 1001
chunkSize == 8000
bufferSize == 8192
PcmScale == 32768
PcmMax == 32767
PcmMin == -32768

ConnIds == 1..MaxConns
FragIds == 1..MaxFrags
CloseCodes == {NormalClosure, GoingAway}
TickSteps == {50, 100}
BinaryTypes == {"arraybuffer", "blob"}
PlayErrors == {"NotAllowedError", "AbortError"}
ControlTypes == {"escalate", "resolve"}
RecIds == 1..MaxStarts
Callbacks == 1..MaxCallbacks
NotAFunction == 0
BlockSizes == {chunkSize, chunkSize + 1, bufferSize}

VARIABLES
    readyState,        \* [ConnIds -> CONNECTING|OPEN|CLOSING|CLOSED] of each WebSocket;
                       \* a slot that holds no WebSocket yet reads CLOSED
    wasOpen,           \* [ConnIds -> BOOLEAN] the open event was delivered (while not CLOSED)
    sent,              \* [ConnIds -> Seq(message)] frames given to ws.send of a connection
                       \* that is not CLOSED, in order
    ws,                \* this.ws: 0 is null
    sessionId,         \* this.sessionId: 0 is null
    genCount,          \* ids produced by generateSessionId so far
    isConnected,       \* this.isConnected
    reconnectAttempts, \* this.reconnectAttempts
    reconnectTimers,   \* pending setTimeout of attemptReconnect: [delay, remaining], listed
                       \* in the order they are due (the service keeps no handle to them)
    mp3Buffer,         \* this.mp3Buffer: Seq(FragIds)
    mp3PlayTimeout,    \* this.mp3PlayTimeout: "null" or "set" (a handle, maybe already fired)
    idleRemaining,     \* ms until the idle-flush timer fires; -1 when none is pending
    isPlaying,         \* this.isPlaying
    audios,            \* Audio elements started and not yet at a terminal outcome
    pendingBlobs,      \* fragments whose Blob.arrayBuffer() has not resolved yet
    nfrag,             \* binary frames received so far
    sinceArrival,      \* ms since the most recent binary frame arrived (saturates at IdleDelay)
    nchunk,            \* chunks offered to sendAudioChunk so far
    ncontrol,          \* control envelopes offered so far
    starts,            \* [RecIds -> idle|acquiring|done] the calls of startRecording
    streams,           \* [RecIds -> none|live|stopped] the MediaStream of each call
    contexts,          \* [RecIds -> none|running|closed] the AudioContext of each call
    processors,        \* [RecIds -> none|connected|disconnected] its ScriptProcessor
    isRecordingActive, \* [RecIds -> BOOLEAN] the flag in the closure of each call
    audioBuffer,       \* [RecIds -> [first, len]] the capture buffer in that closure
    mediaStreamRef,    \* mediaStreamRef.current: 0 is null
    audioContextRef,   \* audioContextRef.current: 0 is null
    processorRef,      \* processorRef.current: 0 is null
    isRecording,       \* the isRecording state of App
    nblocks,           \* sample blocks delivered so far
    handed,            \* history: the set of chunks the capture callbacks gave to
                       \* sendAudioChunk
    stopped,           \* history: stopRecording() returned and startRecording() was
                       \* not called since
    terminated,        \* history: the caller called disconnect() on an Open connection
                       \* and has not called connect() since
    subscribers,       \* this.subscribers: the callbacks of the Set, in insertion order
    lastOp,            \* history: [Callbacks -> [op, repeated]] the last of subscribe
                       \* and unsubscribe that was called with the callback ("none"
                       \* before the first), and whether the call before it was the same
    out                \* what the last step did, in order: sends, published events, playbacks

connVars == <<readyState, wasOpen, sent, ws, sessionId, genCount, isConnected,
              reconnectAttempts, reconnectTimers>>
playVars == <<mp3Buffer, mp3PlayTimeout, idleRemaining, isPlaying, audios,
              pendingBlobs, nfrag, sinceArrival>>
captureVars == <<starts, streams, contexts, processors, isRecordingActive, audioBuffer,
                 mediaStreamRef, audioContextRef, processorRef, isRecording,
                 nblocks, handed, stopped>>
sendVars == <<nchunk, ncontrol, captureVars>>
subVars == <<subscribers, lastOp>>
vars == <<connVars, playVars, sendVars, terminated, subVars, out>>

\* ---------------------------------------------------------------- helpers
Min(a, b) == IF a < b THEN a ELSE b

RECURSIVE Pow2(_)
Pow2(n) == IF n = 0 THEN 1 ELSE 2 * Pow2(n - 1)

Published(type) == [k |-> "publish", type |-> type]
PublishedClose(code) == [k |-> "publish", type |-> "disconnected", code |-> code]
Warned(what) == [k |-> "warn", what |-> what]
PublishedMsg(type, message) == [k |-> "publish", type |-> type, message |-> message]
Sent(c, m) == [k |-> "send", conn |-> c, msg |-> m]
Played(unit) == [k |-> "play", unit |-> unit]
\* URL.revokeObjectURL(audioUrl) in a handler of a unit: the URL of that unit
RevokedUrl == [k |-> "revoke"]
\* resolve() / reject(error) of the promise connect() returned for the socket
\* whose handler runs
PromiseResolved == [k |-> "resolve"]
PromiseRejected == [k |-> "reject"]
Threw(what) == [k |-> "throw", what |-> what]
Logged(what) == [k |-> "log", what |-> what]
AppError(what) == [k |-> "setError", what |-> what]
\* the output o holds the entry e
Has(o, e) == \E i \in 1..Len(o) : o[i] = e

Live(c) == readyState[c] \in {"CONNECTING", "OPEN", "CLOSING"}
LiveConns == {c \in ConnIds : Live(c)}
FreeSlots == ConnIds \ LiveConns
NewSlot == CHOOSE c \in FreeSlots : \A d \in FreeSlots : c <= d

\* ------------------------------------------------------- ConnectionManager

\* socket.js:36-58  connect(sessionId): set this.sessionId, new WebSocket, this.ws = it
connect(sid) ==
    LET c == NewSlot
        fresh == (sid = 0)
    IN  /\ sessionId' = IF fresh THEN genCount + 1 ELSE sid
        /\ genCount' = IF fresh THEN genCount + 1 ELSE genCount
        /\ readyState' = [readyState EXCEPT ![c] = "CONNECTING"]
        /\ wasOpen' = [wasOpen EXCEPT ![c] = FALSE]
        /\ sent' = [sent EXCEPT ![c] = <<>>]
        /\ ws' = c

\* ws.send(data) as the browser defines it, rs being the sockets' ready states:
\* throws on a null reference and on a CONNECTING socket, transmits on an OPEN
\* one, discards on a CLOSING/CLOSED one.
SendThrows(rs, w) == w = 0 \/ rs[w] = "CONNECTING"
SendLog(rs, w, m) == IF w # 0 /\ rs[w] = "OPEN"
                     THEN [sent EXCEPT ![w] = Append(@, m)] ELSE sent
SendOut(rs, w, m) == IF SendThrows(rs, w) THEN <<Threw("send")>>
                     ELSE IF rs[w] = "OPEN" THEN <<Sent(w, m)>> ELSE <<>>

SessionInit == [type |-> "session_init", session_id |-> sessionId]

\* a backoff that doubles once too often: 2^attempts instead of 2^(attempts - 1)
BackoffDelay_OffByOne(attempts) == Min(reconnectDelay * Pow2(attempts), MaxBackoff)

\* socket.js:124-126  delay of the attempt that is being scheduled
BackoffDelay(attempts) == Min(reconnectDelay * Pow2(attempts - 1), MaxBackoff)

\* a close handler that does not look at the close code
ShouldReconnect_AnyCode(code) == reconnectAttempts < maxReconnectAttempts

\* socket.js:108  the condition under which onclose calls attemptReconnect
ShouldReconnect(code) ==
    code # NormalClosure /\ reconnectAttempts < maxReconnectAttempts

\* socket.js:130  setTimeout(..., delay): the timer joins the pending ones, behind
\* every timer that is due no later than it
SetTimeout(timers, delay) ==
    LET before == Cardinality({i \in 1..Len(timers) : timers[i].remaining <= delay})
    IN  [i \in 1..(Len(timers) + 1) |->
            IF i <= before THEN timers[i]
            ELSE IF i = before + 1 THEN [delay |-> delay, remaining |-> delay]
            ELSE timers[i - 1]]

\* socket.js:124-135  attemptReconnect: count the attempt, arm an (unstored) timer
attemptReconnect ==
    /\ reconnectAttempts' = reconnectAttempts + 1
    /\ reconnectTimers' = SetTimeout(reconnectTimers, BackoffDelay(reconnectAttempts + 1))

\* a close handler that keeps the service marked connected while it reconnects
onclose_ConnectedWhileRetrying(code) ==
    /\ isConnected' = ShouldReconnect(code)
    /\ IF ShouldReconnect(code)
       THEN attemptReconnect
       ELSE UNCHANGED <<reconnectAttempts, reconnectTimers>>

\* socket.js:97-111  ws.onclose
onclose(code) ==
    /\ isConnected' = FALSE
    /\ IF ShouldReconnect(code)
       THEN attemptReconnect
       ELSE UNCHANGED <<reconnectAttempts, reconnectTimers>>

\* App.jsx:145  the caller calls socketService.connect(), without a session id
Connect ==
    /\ Cardinality(LiveConns) + Len(reconnectTimers) < MaxConns
    /\ genCount < MaxSessions
    /\ connect(0)
    /\ terminated' = FALSE
    /\ UNCHANGED subVars
    /\ out' = <<>>
    /\ UNCHANGED <<isConnected, reconnectAttempts, reconnectTimers, playVars, sendVars>>

\* an open handler that forgets to reset the attempt counter
onopen_NoReset(rs) ==
    /\ isConnected' = TRUE
    /\ reconnectAttempts' = reconnectAttempts
    /\ sent' = SendLog(rs, ws, SessionInit)
    /\ out' = IF SendThrows(rs, ws)
              THEN SendOut(rs, ws, SessionInit)
              ELSE SendOut(rs, ws, SessionInit) \o <<Published("connected"), PromiseResolved>>

\* socket.js:60-78  ws.onopen, rs being the ready states when it runs: set the
\* flag, reset the counter, this.ws.send(session_init), publish 'connected',
\* resolve()
\* (an exception of send ends the handler)
onopen(rs) ==
    /\ isConnected' = TRUE
    /\ reconnectAttempts' = 0
    /\ sent' = SendLog(rs, ws, SessionInit)
    /\ out' = IF SendThrows(rs, ws)
              THEN SendOut(rs, ws, SessionInit)
              ELSE SendOut(rs, ws, SessionInit) \o <<Published("connected"), PromiseResolved>>

\* socket.js:60-78  connection c is established: the open event
WsOpen(c) ==
    /\ readyState[c] = "CONNECTING"
    /\ readyState' = [readyState EXCEPT ![c] = "OPEN"]
    /\ wasOpen' = [wasOpen EXCEPT ![c] = TRUE]
    /\ onopen(readyState')
    /\ UNCHANGED <<ws, sessionId, genCount, reconnectTimers, playVars, sendVars, terminated, subVars>>

\* connection c reaches CLOSED: nothing is sent on it any more
Closed(c) ==
    /\ readyState' = [readyState EXCEPT ![c] = "CLOSED"]
    /\ wasOpen' = [wasOpen EXCEPT ![c] = FALSE]
    /\ sent' = [sent EXCEPT ![c] = <<>>]

\* socket.js:86-94 then 97-111: the transport fails connection c (it could not be
\* established, it was lost, or close() was called before it was established):
\* the browser fires error and then close with code 1006.
WsFail(c) ==
    /\ Live(c)
    /\ Closed(c)
    /\ onclose(AbnormalClosure)
    /\ out' = <<PublishedMsg("error", "WebSocket connection error"), PromiseRejected,
                PublishedClose(AbnormalClosure)>>
    /\ UNCHANGED <<ws, sessionId, genCount, playVars, sendVars, terminated, subVars>>

\* socket.js:97-111: the server closes the open connection c with a close code
WsServerClose(c, code) ==
    /\ readyState[c] = "OPEN"
    /\ Closed(c)
    /\ onclose(code)
    /\ out' = <<PublishedClose(code)>>
    /\ UNCHANGED <<ws, sessionId, genCount, playVars, sendVars, terminated, subVars>>

\* socket.js:97-111: the closing handshake of ws.close(1000, ...) on an
\* established connection completes; the close event carries code 1000
WsCloseDone(c) ==
    /\ readyState[c] = "CLOSING"
    /\ wasOpen[c]
    /\ Closed(c)
    /\ onclose(NormalClosure)
    /\ out' = <<PublishedClose(NormalClosure)>>
    /\ UNCHANGED <<ws, sessionId, genCount, playVars, sendVars, terminated, subVars>>

RemoveAt(s, i) == [j \in 1..(Len(s) - 1) |-> IF j < i THEN s[j] ELSE s[j + 1]]

\* socket.js:130-134  the timer armed by attemptReconnect fires
ReconnectTimerFires(i) ==
    /\ i \in 1..Len(reconnectTimers)
    /\ reconnectTimers[i].remaining = 0
    /\ reconnectTimers' = RemoveAt(reconnectTimers, i)
    /\ connect(sessionId)
    /\ out' = <<>>
    /\ UNCHANGED <<isConnected, reconnectAttempts, playVars, sendVars, terminated, subVars>>

\* socket.js:640-643  ws.close(1000, 'Client disconnect') as the browser defines it
CloseSocket(w) ==
    IF w # 0 /\ readyState[w] \in {"CONNECTING", "OPEN"}
    THEN [readyState EXCEPT ![w] = "CLOSING"]
    ELSE readyState

\* a disconnect that forgets the handle without clearing the timer
disconnect_KeepsTimer ==
    /\ readyState' = CloseSocket(ws)
    /\ ws' = 0
    /\ isConnected' = FALSE
    /\ mp3Buffer' = <<>>
    /\ isPlaying' = FALSE
    /\ mp3PlayTimeout' = "null"
    /\ idleRemaining' = idleRemaining

\* socket.js:639-658  disconnect()
disconnect ==
    /\ readyState' = CloseSocket(ws)
    /\ ws' = 0
    /\ isConnected' = FALSE
    /\ mp3Buffer' = <<>>
    /\ isPlaying' = FALSE
    /\ mp3PlayTimeout' = "null"
    /\ idleRemaining' = IF mp3PlayTimeout # "null" THEN -1 ELSE idleRemaining

Disconnect ==
    /\ disconnect
    /\ terminated' = (terminated \/ (isConnected /\ ws # 0 /\ readyState[ws] = "OPEN"))
    /\ UNCHANGED subVars
    /\ out' = <<>>
    /\ UNCHANGED <<wasOpen, sent, sessionId, genCount, reconnectAttempts, reconnectTimers,
                   audios, pendingBlobs, nfrag, sinceArrival, sendVars>>

\* ------------------------------------------------------- PlaybackScheduler
\* The handlers of the playback path call one another (the end of a playback
\* runs the continuation, which may call playMP3Buffer again), so they are
\* written as functions of the fields they touch:
\*   s = [isPlaying, mp3Buffer, audios, out]
PlayState == [isPlaying |-> isPlaying, mp3Buffer |-> mp3Buffer, audios |-> audios, out |-> <<>>]

\* a playMP3Buffer that leaves the fragments it plays in the buffer
playMP3Buffer_KeepsBuffer(s) ==
    IF s.isPlaying \/ s.mp3Buffer = <<>>
    THEN s
    ELSE [isPlaying |-> TRUE,
          mp3Buffer |-> s.mp3Buffer,
          audios |-> s.audios \cup {[unit |-> s.mp3Buffer, phase |-> "starting"]},
          out |-> Append(s.out, Played(s.mp3Buffer))]

\* socket.js:352-405, 435  playMP3Buffer up to `await playPromise`: the guard,
\* the flag, the concatenation of the buffer into one unit, audio.play()
playMP3Buffer(s) ==
    IF s.isPlaying \/ s.mp3Buffer = <<>>
    THEN s
    ELSE [isPlaying |-> TRUE,
          mp3Buffer |-> <<>>,
          audios |-> s.audios \cup {[unit |-> s.mp3Buffer, phase |-> "starting"]},
          out |-> Append(s.out, Played(s.mp3Buffer))]

\* socket.js:485-493  after `await playPromise` resolved: play what accumulated
continuation(s) ==
    IF s.mp3Buffer # <<>>
    THEN playMP3Buffer(s)
    ELSE [s EXCEPT !.isPlaying = FALSE]

\* socket.js:409-419  audio.onended, then the continuation it resolves
onended(s, a) ==
    continuation([s EXCEPT !.audios = @ \ {a}, !.isPlaying = FALSE,
                           !.out = Append(@, RevokedUrl)])

\* an error handler and catch block that leave the flag set
onerror_KeepsFlag(s, a) ==
    [s EXCEPT !.audios = @ \ {a}, !.mp3Buffer = <<>>, !.out = Append(@, RevokedUrl)]

\* socket.js:421-432 and 494-501  audio.onerror rejects playPromise: the catch block
onerror(s, a) ==
    [s EXCEPT !.audios = @ \ {a}, !.isPlaying = FALSE, !.mp3Buffer = <<>>,
              !.out = Append(@, RevokedUrl)]

AutoplayBlocked == "Audio autoplay blocked. Please click anywhere on the page to enable audio playback."

\* a catch handler of play() that reports no rejection
onplayrejected_Silent(s, a, name) ==
    continuation([s EXCEPT
        !.audios = @ \ {a},
        !.isPlaying = FALSE,
        !.out = Append(@, RevokedUrl)])

\* socket.js:456-475  play() rejected: the event for a NotAllowedError, the URL
\* of the unit is revoked, the flag is cleared; then the continuation it resolves
onplayrejected(s, a, name) ==
    continuation([s EXCEPT
        !.audios = @ \ {a},
        !.isPlaying = FALSE,
        !.out = IF name = "NotAllowedError"
                THEN @ \o <<PublishedMsg("error", AutoplayBlocked), RevokedUrl>>
                ELSE Append(@, RevokedUrl)])

\* socket.js:324-328  the callback of the idle-flush timer
onidle(s) ==
    IF ~s.isPlaying /\ s.mp3Buffer # <<>> THEN playMP3Buffer(s) ELSE s

SetPlayState(s) ==
    /\ isPlaying' = s.isPlaying
    /\ mp3Buffer' = s.mp3Buffer
    /\ audios' = s.audios
    /\ out' = s.out

\* socket.js:300-334  handleAudioChunk once the bytes of fragment f are at hand:
\* append, restart the idle-flush timer, publish audio_chunk
appendFragment(f) ==
    /\ mp3Buffer' = Append(mp3Buffer, f)
    /\ mp3PlayTimeout' = "set"
    /\ idleRemaining' = IdleDelay
    /\ out' = <<Published("audio_chunk")>>

\* socket.js:153-159, 283-292  a binary frame arrives on the open connection c,
\* as an ArrayBuffer (handled at once) or as a Blob (arrayBuffer() is awaited)
WsBinary(c, binaryType) ==
    /\ readyState[c] = "OPEN"
    /\ nfrag < MaxFrags
    /\ nfrag' = nfrag + 1
    /\ sinceArrival' = 0
    /\ IF binaryType = "blob"
       THEN /\ pendingBlobs' = pendingBlobs \cup {nfrag + 1}
            /\ out' = <<>>
            /\ UNCHANGED <<mp3Buffer, mp3PlayTimeout, idleRemaining>>
       ELSE /\ appendFragment(nfrag + 1)
            /\ UNCHANGED pendingBlobs
    /\ UNCHANGED <<connVars, isPlaying, audios, sendVars, terminated, subVars>>

\* socket.js:290-292  the arrayBuffer() of fragment f resolves
BlobResolved(f) ==
    /\ f \in pendingBlobs
    /\ pendingBlobs' = pendingBlobs \ {f}
    /\ appendFragment(f)
    /\ UNCHANGED <<connVars, isPlaying, audios, nfrag, sinceArrival, sendVars, terminated, subVars>>

\* socket.js:324-328  the idle-flush timer fires
IdleTimerFires ==
    /\ idleRemaining = 0
    /\ idleRemaining' = -1
    /\ SetPlayState(onidle(PlayState))
    /\ UNCHANGED <<connVars, mp3PlayTimeout, pendingBlobs, nfrag, sinceArrival, sendVars, terminated, subVars>>

\* socket.js:437-455  play() resolved: the unit is audible
PlayResolved(a) ==
    /\ a \in audios
    /\ a.phase = "starting"
    /\ audios' = (audios \ {a}) \cup {[a EXCEPT !.phase = "playing"]}
    /\ out' = <<>>
    /\ UNCHANGED <<connVars, mp3Buffer, mp3PlayTimeout, idleRemaining, isPlaying,
                   pendingBlobs, nfrag, sinceArrival, sendVars, terminated, subVars>>

\* socket.js:456-475  the platform declines to start the playback
PlayRejected(a, name) ==
    /\ a \in audios
    /\ a.phase = "starting"
    /\ SetPlayState(onplayrejected(PlayState, a, name))
    /\ UNCHANGED <<connVars, mp3PlayTimeout, idleRemaining, pendingBlobs, nfrag,
                   sinceArrival, sendVars, terminated, subVars>>

\* socket.js:409-419  the unit played to its end
AudioEnded(a) ==
    /\ a \in audios
    /\ a.phase = "playing"
    /\ SetPlayState(onended(PlayState, a))
    /\ UNCHANGED <<connVars, mp3PlayTimeout, idleRemaining, pendingBlobs, nfrag,
                   sinceArrival, sendVars, terminated, subVars>>

\* socket.js:421-432  the unit cannot be decoded
AudioError(a) ==
    /\ a \in audios
    /\ SetPlayState(onerror(PlayState, a))
    /\ UNCHANGED <<connVars, mp3PlayTimeout, idleRemaining, pendingBlobs, nfrag,
                   sinceArrival, sendVars, terminated, subVars>>

\* ------------------------------------------------------------- MessageRouter
\* An inbound text frame is a text that JSON.parse rejects (syntax "bad") or a
\* text that denotes a JSON value: null, a value that is no object (a number),
\* or an object with its fields; a field the object lacks reads "undefined".
KnownTypes == {"session_initialized", "transcript", "user_transcript", "ai_transcript",
               "incident_summary", "decision_explanation", "transcription_status",
               "error", "audio_processed"}
MessageTypes == KnownTypes \cup {"pong", "undefined"}
TranscriptTypes == {"transcript", "user_transcript", "ai_transcript"}
JsonObjects == {o \in [json : {"object"}, type : MessageTypes,
                       speaker : {"undefined", "ai"}, message : {"boom"}] :
                    o.speaker = "undefined" \/ o.type \in TranscriptTypes}
JsonValues == JsonObjects \cup {[json |-> "null"], [json |-> "number"]}
TextFrames == {[syntax |-> "bad"]} \cup {[syntax |-> "ok", value |-> v] : v \in JsonValues}

\* socket.js:166  JSON.parse(event.data): the value, or a SyntaxError
JSONParse(frame) ==
    IF frame.syntax = "bad" THEN [threw |-> TRUE] ELSE [threw |-> FALSE, value |-> frame.value]

\* socket.js:199  message.type: reading a property of null throws a TypeError,
\* of a value that is no object gives undefined
TypeThrows(message) == message.json = "null"
TypeOf(message) == IF message.json = "object" THEN message.type ELSE "undefined"

\* socket.js:212-218  the transcript event and its speaker fallback
TranscriptEvent(message) ==
    [k |-> "publish", type |-> "transcript",
     speaker |-> IF message.speaker # "undefined" THEN message.speaker
                 ELSE IF message.type = "ai_transcript" THEN "ai" ELSE "user"]

\* a switch whose first case lacks its break: session_initialized falls through
processMessage_FallThrough(message) ==
    LET t == TypeOf(message)
    IN  IF t = "session_initialized"
        THEN <<Published("session_initialized"), TranscriptEvent(message)>>
        ELSE IF t \in TranscriptTypes
        THEN <<TranscriptEvent(message)>>
        ELSE IF t = "error" THEN <<PublishedMsg("error", message.message)>>
        ELSE IF t \in KnownTypes THEN <<Published(t)>>
        ELSE <<>>

\* a switch whose default branch reports the type it does not know
processMessage_DefaultError(message) ==
    LET t == TypeOf(message)
    IN  IF t \in TranscriptTypes THEN <<TranscriptEvent(message)>>
        ELSE IF t = "error" THEN <<PublishedMsg("error", message.message)>>
        ELSE IF t \in KnownTypes THEN <<Published(t)>>
        ELSE <<PublishedMsg("error", "Unknown message type")>>

\* socket.js:195-273  processMessage(message): the events it publishes, in order
processMessage(message) ==
    LET t == TypeOf(message)
    IN  CASE t = "session_initialized" -> <<Published("session_initialized")>>
          [] t \in TranscriptTypes -> <<TranscriptEvent(message)>>
          [] t = "incident_summary" -> <<Published("incident_summary")>>
          [] t = "decision_explanation" -> <<Published("decision_explanation")>>
          [] t = "transcription_status" -> <<Published("transcription_status")>>
          [] t = "error" -> <<PublishedMsg("error", message.message)>>
          [] t = "audio_processed" -> <<Published("audio_processed")>>
          [] OTHER -> <<>>

\* a catch block that only logs
ParseFailure_Silent == <<>>

\* socket.js:171-181  the catch block of handleMessage
ParseFailure == <<PublishedMsg("error", "Failed to parse message")>>

\* socket.js:162-181  the text branch of handleMessage: the debug record of the
\* branch taken (socket.js:173, 197), then what it publishes
RouteText(frame) ==
    LET parsed == JSONParse(frame)
    IN  IF parsed.threw THEN <<Logged("JSON parse failed")>> \o ParseFailure
        ELSE IF TypeThrows(parsed.value) THEN <<Logged("JSON parse failed")>> \o ParseFailure
        ELSE <<Logged("processMessage called")>> \o processMessage(parsed.value)

\* a router that treats an error-typed message of the server as a lost connection
handleMessage_ErrorDisconnects(frame) ==
    /\ out' = RouteText(frame)
    /\ isConnected' = (isConnected /\ ~Has(RouteText(frame), PublishedMsg("error", "boom")))
    /\ UNCHANGED <<readyState, wasOpen, sent, ws, sessionId, genCount,
                   reconnectAttempts, reconnectTimers>>

\* a router that hands the text frame to a task that runs later
handleMessage_Deferred(frame) ==
    /\ out' = <<Logged("processMessage called")>>
    /\ UNCHANGED connVars

\* socket.js:146-182  handleMessage(event) for a text frame
handleMessage(frame) ==
    /\ out' = RouteText(frame)
    /\ UNCHANGED connVars

\* socket.js:81-83  ws.onmessage: a text frame arrives on the open connection c
WsText(c, frame) ==
    /\ readyState[c] = "OPEN"
    /\ handleMessage(frame)
    /\ UNCHANGED <<playVars, sendVars, terminated, subVars>>

\* frontend/src/services/socket.js:171-228  processMessage(message) of the
\* legacy service: the events it publishes, in order. Its switch has no case for
\* decision_explanation and transcription_status, names the incident event
\* 'incident', and publishes an event in its default branch.
legacyProcessMessage(message) ==
    LET t == TypeOf(message)
    IN  CASE t = "session_initialized" -> <<Published("session_initialized")>>
          [] t \in TranscriptTypes -> <<TranscriptEvent(message)>>
          [] t = "incident_summary" -> <<Published("incident")>>
          [] t = "error" -> <<PublishedMsg("error", message.message)>>
          [] t = "audio_processed" -> <<Published("audio_processed")>>
          [] OTHER -> <<Published("unknown")>>

\* frontend/src/services/socket.js:146-158  the text branch of the legacy
\* handleMessage: what it publishes
LegacyRouteText(frame) ==
    LET parsed == JSONParse(frame)
    IN  IF parsed.threw \/ TypeThrows(parsed.value) THEN ParseFailure
        ELSE legacyProcessMessage(parsed.value)

\* frontend/src/services/socket.js:139-158  a text frame arrives on the open
\* connection c of the legacy service
LegacyWsText(c, frame) ==
    /\ readyState[c] = "OPEN"
    /\ out' = LegacyRouteText(frame)
    /\ UNCHANGED <<connVars, playVars, sendVars, terminated, subVars>>

\* ------------------------------------------------------------------ EventBus
\* subscribers is a Set: it iterates in insertion order and holds a value once.
\* A Published entry of `out` is a call of notifySubscribers; what the call does
\* with the subscribers follows from the entry and the set.
IsFunction(v) == v # NotAFunction
\* the callback that faults whenever it is invoked
Throws(cb) == cb = 1
Called(cb, event) == [k |-> "call", to |-> cb, event |-> event, threw |-> Throws(cb)]

IndexOf(s, v) == CHOOSE i \in 1..Len(s) : s[i] = v
InSeq(s, v) == \E i \in 1..Len(s) : s[i] = v

\* a subscribe that keeps its targets in an array and pushes every time
subscribe_Push(v) ==
    IF IsFunction(v) THEN Append(subscribers, v) ELSE subscribers

\* socket.js:598-604  subscribe(callback): this.subscribers.add(callback)
subscribe(v) ==
    IF IsFunction(v) /\ ~InSeq(subscribers, v) THEN Append(subscribers, v) ELSE subscribers

\* socket.js:613-615  unsubscribe(callback): this.subscribers.delete(callback)
unsubscribe(v) ==
    IF InSeq(subscribers, v) THEN RemoveAt(subscribers, IndexOf(subscribers, v)) ELSE subscribers

\* a forEach without the try/catch: the first fault ends the iteration and
\* leaves notifySubscribers as an exception
notifySubscribers_NoCatch(event) ==
    LET faulty == {i \in 1..Len(subscribers) : Throws(subscribers[i])}
        last == IF faulty = {} THEN Len(subscribers)
                ELSE CHOOSE i \in faulty : \A j \in faulty : i <= j
    IN  [calls |-> [i \in 1..last |-> Called(subscribers[i], event)],
         threw |-> faulty # {}]

\* socket.js:624-632  notifySubscribers(event): every subscriber is called in
\* turn inside a try/catch; the result is the calls made and whether a fault
\* leaves the function
notifySubscribers(event) ==
    [calls |-> [i \in 1..Len(subscribers) |-> Called(subscribers[i], event)],
     threw |-> FALSE]

\* the calls of subscribers a step makes: those of each notifySubscribers call
\* recorded in its output o, in order
RECURSIVE Deliveries(_)
Deliveries(o) ==
    IF o = <<>> THEN <<>>
    ELSE (IF Head(o).k = "publish" THEN notifySubscribers(Head(o)).calls ELSE <<>>)
            \o Deliveries(Tail(o))

\* a fault of a subscriber left one of the notifySubscribers calls of the step
Propagated(o) == \E i \in 1..Len(o) : o[i].k = "publish" /\ notifySubscribers(o[i]).threw

\* App.jsx:144  socketService.subscribe(v), v being a callback or not a function
Subscribe(v) ==
    /\ subscribers' = subscribe(v)
    /\ lastOp' = IF IsFunction(v)
                 THEN [lastOp EXCEPT ![v] = [op |-> "subscribe", repeated |-> @.op = "subscribe"]]
                 ELSE lastOp
    /\ out' = IF IsFunction(v) THEN <<>> ELSE <<Warned("callback must be a function")>>
    /\ UNCHANGED <<connVars, playVars, sendVars, terminated>>

\* App.jsx:150  socketService.unsubscribe(cb)
Unsubscribe(cb) ==
    /\ subscribers' = unsubscribe(cb)
    /\ lastOp' = [lastOp EXCEPT ![cb] = [op |-> "unsubscribe", repeated |-> @.op = "unsubscribe"]]
    /\ out' = <<>>
    /\ UNCHANGED <<connVars, playVars, sendVars, terminated>>

\* ------------------------------------------------------------ outbound path
AudioFrame(ch) == [type |-> "audio", chunk |-> ch]

\* a guard that trusts the isConnected flag and does not test readyState
CanSend_FlagOnly == isConnected /\ ws # 0

\* socket.js:544  the guard of sendAudioChunk
CanSend == isConnected /\ ws # 0 /\ readyState[ws] = "OPEN"

\* a sender that puts the newest chunk in front of the ones it sent before
sendAudioChunk_NewestFirst(ch) ==
    IF ~CanSend
    THEN /\ out' = <<Warned("cannot send audio chunk")>>
         /\ UNCHANGED sent
    ELSE /\ sent' = [sent EXCEPT ![ws] = <<AudioFrame(ch)>> \o @]
         /\ out' = <<Sent(ws, AudioFrame(ch))>>

\* socket.js:543-580  sendAudioChunk(chunk)
sendAudioChunk(ch) ==
    IF ~CanSend
    THEN /\ out' = <<Warned("cannot send audio chunk")>>
         /\ UNCHANGED sent
    ELSE /\ sent' = [sent EXCEPT ![ws] = Append(@, AudioFrame(ch))]
         /\ out' = <<Sent(ws, AudioFrame(ch))>>

\* App.jsx:190-194  the capture callback hands the next chunk to sendAudioChunk
SendAudioChunk ==
    /\ nchunk < MaxChunks
    /\ nchunk' = nchunk + 1
    /\ sendAudioChunk(nchunk + 1)
    /\ UNCHANGED <<readyState, wasOpen, ws, sessionId, genCount, isConnected,
                   reconnectAttempts, reconnectTimers, playVars, ncontrol, captureVars,
                   terminated, subVars>>

\* App.jsx:254-261, 291-298  handleEscalate / handleResolve: ws?.send(envelope)
\* when getConnectionStatus() is true
SendControl(type) ==
    /\ ncontrol < MaxControl
    /\ ncontrol' = ncontrol + 1
    /\ IF isConnected /\ ws # 0
       THEN /\ sent' = SendLog(readyState, ws, [type |-> type])
            /\ out' = SendOut(readyState, ws, [type |-> type])
       ELSE /\ out' = <<>>
            /\ UNCHANGED sent
    /\ UNCHANGED <<readyState, wasOpen, ws, sessionId, genCount, isConnected,
                   reconnectAttempts, reconnectTimers, playVars, nchunk, captureVars,
                   terminated, subVars>>

\* ------------------------------------------------------------ PCM encoding
\* The conversion of a Float32Array chunk to 16-bit PCM inside sendAudioChunk.
\* A sample is a numerator over Resolution: 1.0 is Resolution, -1.0 is
\* -Resolution.
One == Resolution
SampleValues ==
    {-3 * One, -One - 1, -One, 1 - One, 2 - One, -(One \div 2), 1 - (One \div 2),
     -3, -2, -1, 0, 1, 2, 3,
     One \div 2, (One \div 2) + 1, One - 2, One - 1, One, One + 1, 3 * One}
Float32Arrays == UNION {[1..n -> SampleValues] : n \in 1..MaxSamples}

Max(a, b) == IF a > b THEN a ELSE b

\* an element store of an Int16Array: ToInt16 wraps modulo 2^16
ToInt16(v) == ((v + PcmScale) % (2 * PcmScale)) - PcmScale

\* Math.round of the quotient a / b, b > 0: the nearest integer, halves go up
RoundDiv(a, b) == (2 * a + b) \div (2 * b)

\* the quotient a / b, b > 0, with its fraction dropped (ToInt16 of a non-integer)
TruncDiv(a, b) == IF a >= 0 THEN a \div b ELSE -((-a) \div b)

\* a conversion that rounds the scaled sample and does not clamp the result
Int16Sample_NoClamp(x) ==
    LET s == Max(-One, Min(One, x))
    IN  ToInt16(RoundDiv(s * PcmScale, One))

\* socket.js:560-562  one sample: clamp to [-1, 1], scale by 32768, round, clamp
\* to the int16 range, store
Int16Sample(x) ==
    LET s == Max(-One, Min(One, x))
    IN  ToInt16(Max(PcmMin, Min(PcmMax, RoundDiv(s * PcmScale, One))))

\* frontend/src/services/socket.js:328-329  one sample in the legacy service:
\* clamp to [-1, 1], scale by 0x8000 below zero and by 0x7FFF otherwise, store
LegacyInt16Sample(x) ==
    LET s == Max(-One, Min(One, x))
    IN  ToInt16(IF s < 0 THEN TruncDiv(s * PcmScale, One) ELSE TruncDiv(s * PcmMax, One))

\* socket.js:557-563  the Int16Array of a Float32Array chunk
int16Array(chunk) == [i \in 1..Len(chunk) |-> Int16Sample(chunk[i])]

\* frontend/src/services/socket.js:326-330  the same, in the legacy service
legacyInt16Array(chunk) == [i \in 1..Len(chunk) |-> LegacyInt16Sample(chunk[i])]

Offered(chunk) == [k |-> "chunk", floats |-> chunk]
Encoded(service, chunk, ints) ==
    [k |-> "encode", service |-> service, floats |-> chunk, ints |-> ints]

\* socket.js:553-564  sendAudioChunk converts the Float32Array it was given
ConvertChunk ==
    /\ out # <<>>
    /\ out[1].k = "chunk"
    /\ out' = <<Encoded("nirnay-ui", out[1].floats, int16Array(out[1].floats))>>
    /\ UNCHANGED <<connVars, playVars, sendVars, terminated, subVars>>

\* frontend/src/services/socket.js:324-331  the legacy sendAudioChunk converts it
LegacyConvertChunk ==
    /\ out # <<>>
    /\ out[1].k = "chunk"
    /\ out' = <<Encoded("legacy", out[1].floats, legacyInt16Array(out[1].floats))>>
    /\ UNCHANGED <<connVars, playVars, sendVars, terminated, subVars>>

\* ------------------------------------------------------------ CapturePipeline
\* App.jsx: startRecording / stopRecording.  Each call of startRecording that
\* gets a microphone builds a stream, an AudioContext and a ScriptProcessor of
\* its own; they carry the number of the call.  A capture buffer is the run of
\* samples [first, first + len) of its stream.

\* App.jsx:159-169  startRecording() is called (the record button, while
\* isRecording is false) and awaits getUserMedia
StartRecording ==
    /\ ~isRecording
    /\ \E k \in RecIds :
        /\ starts[k] = "idle"
        /\ \A j \in RecIds : j < k => starts[j] # "idle"
        /\ starts' = [starts EXCEPT ![k] = "acquiring"]
    /\ stopped' = FALSE
    /\ out' = <<>>
    /\ UNCHANGED <<streams, contexts, processors, isRecordingActive, audioBuffer,
                   mediaStreamRef, audioContextRef, processorRef, isRecording,
                   nblocks, handed>>
    /\ UNCHANGED <<connVars, playVars, nchunk, ncontrol, terminated, subVars>>

\* App.jsx:171-204  getUserMedia resolved for call k: the stream, the context
\* and the processor are created and stored in the refs, capture is active
MicGranted(k) ==
    /\ starts[k] = "acquiring"
    /\ starts' = [starts EXCEPT ![k] = "done"]
    /\ streams' = [streams EXCEPT ![k] = "live"]
    /\ mediaStreamRef' = k
    /\ contexts' = [contexts EXCEPT ![k] = "running"]
    /\ audioContextRef' = k
    /\ processors' = [processors EXCEPT ![k] = "connected"]
    /\ processorRef' = k
    /\ audioBuffer' = [audioBuffer EXCEPT ![k] = [first |-> 0, len |-> 0]]
    /\ isRecordingActive' = [isRecordingActive EXCEPT ![k] = TRUE]
    /\ isRecording' = TRUE
    /\ out' = <<>>
    /\ UNCHANGED <<nblocks, handed, stopped>>
    /\ UNCHANGED <<connVars, playVars, nchunk, ncontrol, terminated, subVars>>

\* a catch block that ends the call when the microphone is refused
MicDenied_EndsCall(k) ==
    /\ starts[k] = "acquiring"
    /\ starts' = [starts EXCEPT ![k] = "done"]
    /\ out' = <<AppError("Failed to access microphone")>>
    /\ disconnect
    /\ UNCHANGED <<streams, contexts, processors, isRecordingActive, audioBuffer,
                   mediaStreamRef, audioContextRef, processorRef, isRecording,
                   nblocks, handed, stopped>>
    /\ UNCHANGED <<wasOpen, sent, sessionId, genCount, reconnectAttempts, reconnectTimers,
                   audios, pendingBlobs, nfrag, sinceArrival, nchunk, ncontrol,
                   terminated, subVars>>

\* App.jsx:161-169, 205-207  getUserMedia rejected for call k (no device, access
\* denied): the catch block reports it
MicDenied(k) ==
    /\ starts[k] = "acquiring"
    /\ starts' = [starts EXCEPT ![k] = "done"]
    /\ out' = <<AppError("Failed to access microphone")>>
    /\ UNCHANGED <<streams, contexts, processors, isRecordingActive, audioBuffer,
                   mediaStreamRef, audioContextRef, processorRef, isRecording,
                   nblocks, handed, stopped>>
    /\ UNCHANGED <<connVars, playVars, nchunk, ncontrol, terminated, subVars>>

\* App.jsx:171-173, 205-207  getUserMedia resolved for call k, the stream is
\* stored, then `new AudioContext(...)` throws: the catch block reports it
GraphFails(k) ==
    /\ starts[k] = "acquiring"
    /\ starts' = [starts EXCEPT ![k] = "done"]
    /\ streams' = [streams EXCEPT ![k] = "live"]
    /\ mediaStreamRef' = k
    /\ out' = <<AppError("Failed to access microphone")>>
    /\ UNCHANGED <<contexts, processors, isRecordingActive, audioBuffer,
                   audioContextRef, processorRef, isRecording, nblocks, handed, stopped>>
    /\ UNCHANGED <<connVars, playVars, nchunk, ncontrol, terminated, subVars>>

\* a threshold test that waits for more than a full chunk
ShouldCut_Strict(len) == len > chunkSize

\* App.jsx:190  audioBuffer.length >= chunkSize
ShouldCut(len) == len >= chunkSize

\* App.jsx:191-192  audioBuffer.splice(0, chunkSize) of the buffer of call k: the
\* chunk is the oldest samples, at most chunkSize of them
Splice(k, buf) == [rec |-> k, first |-> buf.first, len |-> Min(buf.len, chunkSize)]

\* App.jsx:183-195  processor.onaudioprocess of call k with a block of n samples
onaudioprocess(k, n) ==
    LET pushed == [audioBuffer[k] EXCEPT !.len = @ + n]
        chunk == Splice(k, pushed)
    IN  IF ~isRecordingActive[k]
        THEN /\ out' = <<>>
             /\ UNCHANGED <<audioBuffer, handed, sent>>
        ELSE IF ShouldCut(pushed.len)
        THEN /\ audioBuffer' = [audioBuffer EXCEPT
                    ![k] = [first |-> pushed.first + chunk.len, len |-> pushed.len - chunk.len]]
             /\ handed' = handed \cup {chunk}
             /\ sendAudioChunk(chunk)
        ELSE /\ audioBuffer' = [audioBuffer EXCEPT ![k] = pushed]
             /\ out' = <<>>
             /\ UNCHANGED <<handed, sent>>

\* App.jsx:183  a block of n samples is delivered to the processor of call k
\* (also one that was scheduled before the processor was disconnected)
AudioProcess(k, n) ==
    /\ processors[k] # "none"
    /\ nblocks < MaxBlocks
    /\ nblocks' = nblocks + 1
    /\ onaudioprocess(k, n)
    /\ UNCHANGED <<starts, streams, contexts, processors, isRecordingActive,
                   mediaStreamRef, audioContextRef, processorRef, isRecording, stopped>>
    /\ UNCHANGED <<readyState, wasOpen, ws, sessionId, genCount, isConnected,
                   reconnectAttempts, reconnectTimers, playVars, nchunk, ncontrol, terminated, subVars>>

\* App.jsx:177, 183  the ScriptProcessor of call k, while it is connected in a
\* running context, delivers its next block of bufferSize samples
ScriptProcessorBlock(k) ==
    /\ processors[k] = "connected"
    /\ contexts[k] = "running"
    /\ nblocks < MaxStream
    /\ nblocks' = nblocks + 1
    /\ onaudioprocess(k, bufferSize)
    /\ UNCHANGED <<starts, streams, contexts, processors, isRecordingActive,
                   mediaStreamRef, audioContextRef, processorRef, isRecording, stopped>>
    /\ UNCHANGED <<readyState, wasOpen, ws, sessionId, genCount, isConnected,
                   reconnectAttempts, reconnectTimers, playVars, nchunk, ncontrol, terminated, subVars>>

\* a stop that releases what the refs hold and keeps the refs
stopRecording_KeepsRefs ==
    /\ streams' = IF mediaStreamRef # 0
                  THEN [streams EXCEPT ![mediaStreamRef] = "stopped"] ELSE streams
    /\ contexts' = IF audioContextRef # 0
                   THEN [contexts EXCEPT ![audioContextRef] = "closed"] ELSE contexts
    /\ isRecordingActive' = IF processorRef # 0
                            THEN [isRecordingActive EXCEPT ![processorRef] = FALSE]
                            ELSE isRecordingActive
    /\ processors' = IF processorRef # 0
                     THEN [processors EXCEPT ![processorRef] = "disconnected"] ELSE processors
    /\ isRecording' = FALSE
    /\ stopped' = TRUE
    /\ UNCHANGED <<starts, audioBuffer, nblocks, handed,
                   mediaStreamRef, audioContextRef, processorRef>>

\* App.jsx:213-238  stopRecording(): release what the three refs hold
stopRecording ==
    /\ streams' = IF mediaStreamRef # 0
                  THEN [streams EXCEPT ![mediaStreamRef] = "stopped"] ELSE streams
    /\ mediaStreamRef' = 0
    /\ contexts' = IF audioContextRef # 0
                   THEN [contexts EXCEPT ![audioContextRef] = "closed"] ELSE contexts
    /\ audioContextRef' = 0
    /\ isRecordingActive' = IF processorRef # 0
                            THEN [isRecordingActive EXCEPT ![processorRef] = FALSE]
                            ELSE isRecordingActive
    /\ processors' = IF processorRef # 0
                     THEN [processors EXCEPT ![processorRef] = "disconnected"] ELSE processors
    /\ processorRef' = 0
    /\ isRecording' = FALSE
    /\ stopped' = TRUE
    /\ UNCHANGED <<starts, audioBuffer, nblocks, handed>>

\* App.jsx:243-246  the record button while isRecording is true
StopRecording ==
    /\ isRecording
    /\ stopRecording
    /\ out' = <<>>
    /\ UNCHANGED <<connVars, playVars, nchunk, ncontrol, terminated, subVars>>

\* App.jsx:274-286 and 149-153  handleEndCall / the effect's cleanup:
\* stopRecording() then socketService.disconnect()
EndCall ==
    /\ stopRecording
    /\ disconnect
    /\ terminated' = (terminated \/ (isConnected /\ ws # 0 /\ readyState[ws] = "OPEN"))
    /\ UNCHANGED subVars
    /\ out' = <<>>
    /\ UNCHANGED <<wasOpen, sent, sessionId, genCount, reconnectAttempts, reconnectTimers,
                   audios, pendingBlobs, nfrag, sinceArrival, nchunk, ncontrol>>

\* --------------------------------------------------------------------- time
TimerDeadlines ==
    {reconnectTimers[i].remaining : i \in 1..Len(reconnectTimers)}
        \cup (IF idleRemaining >= 0 THEN {idleRemaining} ELSE {})

Elapse(d) ==
    /\ \A r \in TimerDeadlines : d <= r
    /\ pendingBlobs = {}
    /\ reconnectTimers' = [i \in 1..Len(reconnectTimers) |->
                              [reconnectTimers[i] EXCEPT !.remaining = @ - d]]
    /\ idleRemaining' = IF idleRemaining >= 0 THEN idleRemaining - d ELSE idleRemaining
    /\ sinceArrival' = Min(sinceArrival + d, IdleDelay)
    /\ out' = <<>>
    /\ UNCHANGED <<readyState, wasOpen, sent, ws, sessionId, genCount, isConnected,
                   reconnectAttempts, mp3Buffer, mp3PlayTimeout, isPlaying, audios,
                   pendingBlobs, nfrag, sendVars, terminated, subVars>>

\* a short time passes while the idle-flush window is open
Tick(d) ==
    /\ idleRemaining > 0
    /\ Elapse(d)

\* time passes until the next timer is due
TickToDeadline ==
    /\ TimerDeadlines # {}
    /\ \E d \in TimerDeadlines :
        /\ d > 0
        /\ Elapse(d)

\* ------------------------------------------------------------ specification
\* socket.js:12-25  the constructor
InitFields ==
    /\ readyState = [c \in ConnIds |-> "CLOSED"]
    /\ wasOpen = [c \in ConnIds |-> FALSE]
    /\ sent = [c \in ConnIds |-> <<>>]
    /\ ws = 0
    /\ sessionId = 0
    /\ genCount = 0
    /\ isConnected = FALSE
    /\ reconnectAttempts = 0
    /\ reconnectTimers = <<>>
    /\ mp3Buffer = <<>>
    /\ mp3PlayTimeout = "null"
    /\ idleRemaining = -1
    /\ isPlaying = FALSE
    /\ audios = {}
    /\ pendingBlobs = {}
    /\ nfrag = 0
    /\ sinceArrival = IdleDelay
    /\ nchunk = 0
    /\ ncontrol = 0
    /\ starts = [k \in RecIds |-> "idle"]
    /\ streams = [k \in RecIds |-> "none"]
    /\ contexts = [k \in RecIds |-> "none"]
    /\ processors = [k \in RecIds |-> "none"]
    /\ isRecordingActive = [k \in RecIds |-> FALSE]
    /\ audioBuffer = [k \in RecIds |-> [first |-> 0, len |-> 0]]
    /\ mediaStreamRef = 0
    /\ audioContextRef = 0
    /\ processorRef = 0
    /\ isRecording = FALSE
    /\ nblocks = 0
    /\ handed = {}
    /\ stopped = FALSE
    /\ terminated = FALSE
    /\ subscribers = <<>>
    /\ lastOp = [cb \in Callbacks |-> [op |-> "none", repeated |-> FALSE]]

Init ==
    /\ InitFields
    /\ out = <<>>

\* the service as constructed, with a Float32Array chunk about to be converted
InitChunk ==
    /\ InitFields
    /\ \E chunk \in Float32Arrays : out = <<Offered(chunk)>>

\* the connection's lifecycle: the caller, the transport and the reconnect timer
ConnNext ==
    \/ Connect
    \/ \E c \in ConnIds : WsOpen(c)
    \/ \E c \in ConnIds : WsFail(c)
    \/ \E c \in ConnIds, code \in CloseCodes : WsServerClose(c, code)
    \/ \E c \in ConnIds : WsCloseDone(c)
    \/ \E i \in 1..MaxConns : ReconnectTimerFires(i)
    \/ Disconnect
    \/ TickToDeadline

\* the outbound path
SendNext ==
    \/ SendAudioChunk
    \/ \E t \in ControlTypes : SendControl(t)

\* the playback path
PlayNext ==
    \/ \E c \in ConnIds, t \in BinaryTypes : WsBinary(c, t)
    \/ \E f \in FragIds : BlobResolved(f)
    \/ IdleTimerFires
    \/ \E a \in audios : PlayResolved(a)
    \/ \E a \in audios, name \in PlayErrors : PlayRejected(a, name)
    \/ \E a \in audios : AudioEnded(a)
    \/ \E a \in audios : AudioError(a)
    \/ \E d \in TickSteps : Tick(d)

\* the router of binary frames, up to the hand-over to the playback buffer
BinaryNext ==
    \/ \E c \in ConnIds, t \in BinaryTypes : WsBinary(c, t)
    \/ \E f \in FragIds : BlobResolved(f)

\* the router of text frames
TextNext == \E c \in ConnIds, frame \in TextFrames : WsText(c, frame)

\* the router of text frames of the legacy service
LegacyTextNext == \E c \in ConnIds, frame \in TextFrames : LegacyWsText(c, frame)

\* a call of the legacy service, whose connect() and handlers of the socket read
\* as those of the current service (frontend/src/services/socket.js:34-128):
\* its connection lost and retried, with text frames routed
LegacyNext ==
    \/ (LiveConns = {} /\ reconnectTimers = <<>> /\ Connect)
    \/ \E c \in ConnIds : WsOpen(c)
    \/ \E c \in ConnIds : WsServerClose(c, GoingAway)
    \/ \E i \in 1..MaxConns : ReconnectTimerFires(i)
    \/ TickToDeadline
    \/ LegacyTextNext

\* a call at a time: connect() only when no connection is left from before
CallNext ==
    \/ (LiveConns = {} /\ reconnectTimers = <<>> /\ Connect)
    \/ \E c \in ConnIds : WsOpen(c)
    \/ \E c \in ConnIds : WsCloseDone(c)
    \/ Disconnect
    \/ TickToDeadline

\* the microphone: startRecording, its outcomes, stopRecording
RecorderNext ==
    \/ StartRecording
    \/ \E k \in RecIds : MicGranted(k)
    \/ \E k \in RecIds : MicDenied(k)
    \/ \E k \in RecIds : GraphFails(k)
    \/ StopRecording

\* the capture callback fed with blocks of any size
CaptureNext == \E k \in RecIds, n \in BlockSizes : AudioProcess(k, n)

\* a call at a time, ended by handleEndCall, with the ScriptProcessor's blocks
\* delivered while it lasts
WireNext ==
    \/ (LiveConns = {} /\ reconnectTimers = <<>> /\ Connect)
    \/ \E c \in ConnIds : WsOpen(c)
    \/ \E c \in ConnIds : WsCloseDone(c)
    \/ EndCall
    \/ RecorderNext
    \/ \E k \in RecIds : AudioProcess(k, bufferSize)

\* the caller subscribes and unsubscribes
SubscribeNext ==
    \/ \E v \in Callbacks \cup {NotAFunction} : Subscribe(v)
    \/ \E cb \in Callbacks : Unsubscribe(cb)

\* a call at a time, its connection lost and retried, with text frames routed
PublishNext ==
    \/ (LiveConns = {} /\ reconnectTimers = <<>> /\ Connect)
    \/ \E c \in ConnIds : WsOpen(c)
    \/ \E c \in ConnIds : WsServerClose(c, GoingAway)
    \/ \E c \in ConnIds : WsCloseDone(c)
    \/ \E i \in 1..MaxConns : ReconnectTimerFires(i)
    \/ Disconnect
    \/ TickToDeadline
    \/ TextNext

\* a call with its inbound frames, routed and played, while the microphone is
\* asked for
MicNext ==
    \/ (LiveConns = {} /\ reconnectTimers = <<>> /\ Connect)
    \/ \E c \in ConnIds : WsOpen(c)
    \/ BinaryNext
    \/ IdleTimerFires
    \/ TickToDeadline
    \/ RecorderNext

\* the PCM conversion of the two services
EncodeNext == ConvertChunk \/ LegacyConvertChunk

\* the capture callback fed by the ScriptProcessor
StreamNext == \E k \in RecIds : ScriptProcessorBlock(k)

Next == ConnNext \/ SendNext \/ PlayNext \/ TextNext \/ LegacyTextNext \/ EndCall \/ RecorderNext \/ CaptureNext \/ StreamNext \/ EncodeNext \/ SubscribeNext

\* the whole service
Spec == Init /\ [][Next]_vars
\* the connection manager alone
SpecConn == Init /\ [][ConnNext]_vars
\* the connection manager and the outbound path
SpecSend == Init /\ [][ConnNext \/ SendNext]_vars
\* the connection manager and the capture callback's sends
SpecChunk == Init /\ [][ConnNext \/ SendAudioChunk]_vars
\* the playback scheduler, one call after another
SpecPlay == Init /\ [][CallNext \/ PlayNext]_vars
\* every playback that was started moves on to a terminal outcome
AudioProgress ==
    \E a \in audios :
        \/ PlayResolved(a)
        \/ \E name \in PlayErrors : PlayRejected(a, name)
        \/ AudioEnded(a)
        \/ AudioError(a)
\* time passes
TimePasses == TickToDeadline \/ \E d \in TickSteps : Tick(d)
\* the playback scheduler with what the platform guarantees: a pending
\* arrayBuffer() resolves, time passes, a due timer fires, a playback that was
\* started reaches a terminal outcome
SpecPlayFair ==
    /\ SpecPlay
    /\ WF_vars(\E f \in FragIds : BlobResolved(f))
    /\ WF_vars(TimePasses)
    /\ WF_vars(IdleTimerFires)
    /\ WF_vars(AudioProgress)
\* the capture pipeline fed with blocks of any size
SpecCapture == Init /\ [][RecorderNext \/ CaptureNext \/ EndCall]_vars
\* the capture pipeline fed by its ScriptProcessor, for as long as it runs
SpecStream == Init /\ [][RecorderNext \/ StreamNext \/ EndCall]_vars
\* the capture pipeline and the connection its chunks are sent on
SpecWire == Init /\ [][WireNext]_vars
\* the event bus: subscribers come and go while the service publishes
SpecPublish == Init /\ [][PublishNext \/ SubscribeNext]_vars
\* the microphone is asked for during a call
SpecMic == Init /\ [][MicNext]_vars
\* the PCM conversion of sendAudioChunk applied to a chunk
SpecEncode == InitChunk /\ [][EncodeNext]_vars
\* the router of the legacy service, with its subscribers coming and going
\* (its subscribe and unsubscribe read as those of the current service)
SpecLegacy == Init /\ [][LegacyNext \/ SubscribeNext]_vars
\* the router: inbound frames, binary and text, one call after another
SpecRoute == Init /\ [][CallNext \/ BinaryNext \/ TextNext]_vars

TypeOK ==
    /\ readyState \in [ConnIds -> {"CONNECTING", "OPEN", "CLOSING", "CLOSED"}]
    /\ ws \in {0} \cup ConnIds
    /\ reconnectAttempts \in 0..maxReconnectAttempts
    /\ Cardinality(LiveConns) + Len(reconnectTimers) <= MaxConns
    /\ idleRemaining \in -1..IdleDelay
    /\ isPlaying \in BOOLEAN
    /\ isConnected \in BOOLEAN

\* ------------------------------------------------------------------ claims

\* What a step's output holds: an event, the playbacks it started, the close
\* codes it published; and what an outbound log holds
Plays(o) == {i \in 1..Len(o) : o[i].k = "play"}
CloseCodeOf(o) == {o[i].code : i \in {j \in 1..Len(o) : o[j].k = "publish" /\ o[j].type = "disconnected"}}
AudioChunksIn(log) == {log[i].chunk : i \in {j \in 1..Len(log) : log[j].type = "audio"}}
SessionInitsIn(log) == {i \in 1..Len(log) : log[i].type = "session_init"}
ExpectedDelays == <<1000, 2000, 4000, 8000, 16000>>

\* C1: at most one playback is in progress at any time: no unit is started
\* while a unit started before it has not reached a terminal outcome.
C1_AtMostOnePlayback == Cardinality(audios) <= 1

\* C2: the k-th reconnect attempt since the last successful open (k = 1..5) is
\* scheduled with delay 1000, 2000, 4000, 8000, 16000 ms; a 6th attempt is never
\* scheduled, and once the 5th has failed the service stays disconnected with no
\* timer pending until the caller connects again.
C2_BackoffSchedule ==
    [][/\ Len(reconnectTimers') > Len(reconnectTimers) =>
            /\ Len(reconnectTimers') = Len(reconnectTimers) + 1
            /\ reconnectAttempts' = reconnectAttempts + 1
            /\ reconnectAttempts' \in 1..5
            /\ \E i \in 1..Len(reconnectTimers') :
                /\ reconnectTimers'[i].delay = ExpectedDelays[reconnectAttempts']
                /\ reconnectTimers'[i].remaining = ExpectedDelays[reconnectAttempts']
                /\ reconnectTimers = RemoveAt(reconnectTimers', i)
       /\ reconnectAttempts' # reconnectAttempts =>
            \/ reconnectAttempts' = 0
            \/ Len(reconnectTimers') = Len(reconnectTimers) + 1
       /\ (reconnectAttempts = 5 /\ LiveConns = {} /\ reconnectTimers = <<>>) =>
            /\ ~isConnected
            /\ reconnectTimers' = <<>>
            /\ (genCount' = genCount => (reconnectAttempts' = 5 /\ LiveConns' = {} /\ ~isConnected'))
      ]_vars
\* the 5th attempt has just failed: nothing is live and nothing is scheduled
C2_Witness ==
    /\ reconnectAttempts = 5
    /\ LiveConns = {}
    /\ reconnectTimers = <<>>
    /\ out = <<PublishedMsg("error", "WebSocket connection error"), PromiseRejected,
               PublishedClose(AbnormalClosure)>>

\* C3: disconnect() cancels a pending reconnection timer, so that no connection
\* is opened after it unless the caller calls connect() again.
C3_DisconnectCancelsReconnect == [][Disconnect => reconnectTimers' = <<>>]_vars

\* C4: after disconnect() of an Open connection, and until the caller calls
\* connect() again, the service stays disconnected and no reconnect attempt is
\* pending or made.
C4_DisconnectIsTerminal ==
    terminated => (/\ ~isConnected
                   /\ reconnectTimers = <<>>
                   /\ \A c \in ConnIds : readyState[c] \notin {"CONNECTING", "OPEN"})

\* C5: a close event with code 1000 schedules no reconnect attempt, whatever the
\* attempt counter is; a close event with any other code schedules exactly one
\* whenever fewer than 5 attempts have been made since the last successful open
\* (and none otherwise).
C5_CloseCodePolicy ==
    [][\A code \in CloseCodeOf(out') :
          IF code # 1000 /\ reconnectAttempts < 5
          THEN /\ Len(reconnectTimers') = Len(reconnectTimers) + 1
               /\ reconnectAttempts' = reconnectAttempts + 1
          ELSE /\ reconnectTimers' = reconnectTimers
               /\ reconnectAttempts' = reconnectAttempts
      ]_vars
\* a close with code 1000 while attempts are left and one with another code
\* that scheduled an attempt, both seen: the first leaves the counter at 1..4
C5_Witness ==
    /\ out = <<PublishedClose(NormalClosure)>>
    /\ reconnectAttempts \in 1..4
    /\ Len(reconnectTimers) = 1

\* C6: every successful open resets the reconnect-attempt counter to 0,
\* whatever its value was, and an attempt scheduled from a counter of 0 is
\* attempt number 1, with the base delay of 1000 ms.
C6_OpenResetsAttempts ==
    [][/\ (\E c \in ConnIds : readyState[c] = "CONNECTING" /\ readyState'[c] = "OPEN")
            => reconnectAttempts' = 0
       /\ (reconnectAttempts = 0 /\ Len(reconnectTimers') > Len(reconnectTimers)) =>
            /\ reconnectAttempts' = 1
            /\ \E i \in 1..Len(reconnectTimers') :
                /\ reconnectTimers'[i] = [delay |-> 1000, remaining |-> 1000]
                /\ reconnectTimers = RemoveAt(reconnectTimers', i)
      ]_vars
\* an open that followed a scheduled attempt: the counter is back at 0 while a
\* timer armed before the open is still pending
C6_Witness ==
    /\ reconnectAttempts = 0
    /\ reconnectTimers # <<>>
    /\ Has(out, Published("connected"))

\* C7: every connection that has opened was sent exactly one session_init, as
\* the first outbound message on it.
C7_HandshakeFirst ==
    \A c \in ConnIds :
        (readyState[c] = "OPEN" /\ wasOpen[c]) =>
            /\ sent[c] # <<>>
            /\ sent[c][1].type = "session_init"
            /\ SessionInitsIn(sent[c]) = {1}

\* C8: a chunk is put on the wire only by the sendAudioChunk call that offers it,
\* on the current connection, and only if the service is connected and that
\* connection is OPEN; a chunk offered in any other state changes no outbound
\* log, and no later step transmits it.
C8_SendOnlyWhenOpen ==
    [][/\ \A c \in ConnIds :
            AudioChunksIn(sent'[c]) \ AudioChunksIn(sent[c]) # {} =>
                /\ nchunk' = nchunk + 1
                /\ isConnected /\ ws = c /\ readyState[c] = "OPEN"
                /\ sent'[c] = Append(sent[c], AudioFrame(nchunk'))
       /\ (nchunk' = nchunk + 1 /\ ~(isConnected /\ ws # 0 /\ readyState[ws] = "OPEN"))
            => sent' = sent
      ]_vars
\* a chunk has just been offered during the backoff wait, and refused
C8_Witness ==
    /\ out = <<Warned("cannot send audio chunk")>>
    /\ nchunk >= 1
    /\ reconnectTimers # <<>>
    /\ LiveConns = {}

\* C9: with no playback in progress, a playback starts only as the single flush
\* of the idle timer, exactly 300 ms after the most recent fragment arrived,
\* and its unit covers every fragment that has arrived since the last flush.
C9_IdleFlush ==
    [][(audios = {} /\ Plays(out') # {}) =>
          /\ Cardinality(Plays(out')) = 1
          /\ sinceArrival = IdleDelay
          /\ pendingBlobs = {}
          /\ mp3Buffer # <<>>
          /\ out' = <<Played(mp3Buffer)>>
          /\ mp3Buffer' = <<>>
      ]_vars

\* C10: while a playback is in progress no second playback starts, whether
\* fragments arrive or their idle timer fires; and when a playback ends
\* naturally with fragments buffered, the next playback starts in that same
\* step on exactly the buffered fragments.
C10_Continuation ==
    [][/\ Plays(out') # {} =>
            /\ Cardinality(audios) <= 1
            /\ \A a \in audios : a \notin audios' /\ [a EXCEPT !.phase = "playing"] \notin audios'
       /\ \A a \in audios :
            (AudioEnded(a) /\ mp3Buffer # <<>>) =>
                /\ out' = <<Played(mp3Buffer)>>
                /\ audios' = (audios \ {a}) \cup {[unit |-> mp3Buffer, phase |-> "starting"]}
                /\ mp3Buffer' = <<>>
                /\ isPlaying'
      ]_vars

\* The table of spec section 6: the kind of domain event of each known type
TableKind(type) ==
    IF type \in {"transcript", "user_transcript", "ai_transcript"} THEN "transcript" ELSE type
\* A step that routed a text frame: its output starts with the router's record
TextStep == out' # <<>> /\ out'[1].k = "log"
\* The events an output publishes, in order
Events(o) == SelectSeq(o, LAMBDA e : e.k = "publish")

\* C12: a text frame whose type is one of the nine known ones publishes exactly
\* one event, of the kind the table assigns to the type.
C12_KnownTypeOneEvent ==
    [][TextStep => \A c \in ConnIds, frame \in TextFrames :
          (/\ WsText(c, frame)
           /\ frame.syntax = "ok"
           /\ frame.value.json = "object"
           /\ frame.value.type \in KnownTypes) =>
              /\ Len(Events(out')) = 1
              /\ Events(out')[1].type = TableKind(frame.value.type)
      ]_vars
\* a user_transcript frame without a speaker has been routed
C12_Witness ==
    /\ out = <<Logged("processMessage called"),
               [k |-> "publish", type |-> "transcript", speaker |-> "user"]>>
    /\ \E c \in ConnIds : readyState[c] = "OPEN"

\* C13: a text frame that decodes (JSON.parse succeeds and the type tag can be
\* read) and whose type is not in the table publishes nothing and changes no
\* state.
C13_UnknownTypeIgnored ==
    [][TextStep => \A c \in ConnIds, frame \in TextFrames :
          (/\ WsText(c, frame)
           /\ frame.syntax = "ok"
           /\ frame.value.json # "null"
           /\ TypeOf(frame.value) \notin KnownTypes) =>
              /\ Events(out') = <<>>
              /\ UNCHANGED <<connVars, playVars, sendVars, terminated>>
      ]_vars
\* a decoded frame has been handed to processMessage, which published nothing,
\* while fragments are buffered
C13_Witness ==
    /\ out = <<Logged("processMessage called")>>
    /\ mp3Buffer # <<>>

\* C14: a text frame that cannot be decoded (JSON.parse throws, or the value is
\* null and has no type tag to read) publishes exactly one error event and
\* nothing else; the connection it came on stays OPEN, nothing else changes, and
\* the next frame on it is routed as any frame is.
C14_MalformedOneError ==
    [][TextStep => \A c \in ConnIds, frame \in TextFrames :
          (/\ WsText(c, frame)
           /\ (frame.syntax = "bad" \/ frame.value.json = "null")) =>
              /\ Events(out') = <<PublishedMsg("error", "Failed to parse message")>>
              /\ readyState'[c] = "OPEN"
              /\ UNCHANGED <<connVars, playVars, sendVars, terminated>>
              /\ \A next \in TextFrames : ENABLED WsText(c, next)
      ]_vars
\* the parse failure has been published on an open connection
C14_Witness ==
    /\ out = <<Logged("JSON parse failed"), PublishedMsg("error", "Failed to parse message")>>
    /\ isConnected
    /\ ws # 0 /\ readyState[ws] = "OPEN"

\* C15: routing an inbound frame (binary, or text of any of the four sorts)
\* leaves the session as it was: the ready states, the connected flag, the
\* current connection, the attempt counter and the session id are unchanged, and
\* no reconnect is scheduled.
C15_RoutingKeepsSession ==
    [][((\E c \in ConnIds, frame \in TextFrames : WsText(c, frame))
          \/ (\E c \in ConnIds, t \in BinaryTypes : WsBinary(c, t))
          \/ (\E f \in FragIds : BlobResolved(f))) =>
              /\ readyState' = readyState
              /\ isConnected' = isConnected
              /\ ws' = ws
              /\ reconnectAttempts' = reconnectAttempts
              /\ sessionId' = sessionId
              /\ reconnectTimers' = reconnectTimers
      ]_vars
\* an error-typed message of the server has been passed through while the
\* service is connected
C15_Witness ==
    /\ out = <<Logged("processMessage called"), PublishedMsg("error", "boom")>>
    /\ isConnected
    /\ ws # 0 /\ readyState[ws] = "OPEN"

\* C16: a connection that fails while it is being opened publishes an error
\* event and leaves the service not connected; the connected flag turns true
\* only in a step in which a connection opens, never in the error or close
\* handlers.
C16_ErrorNeverOpens ==
    [][/\ (isConnected' /\ ~isConnected) =>
            \E c \in ConnIds : readyState[c] = "CONNECTING" /\ readyState'[c] = "OPEN"
       /\ \A c \in ConnIds :
            (readyState[c] = "CONNECTING" /\ readyState'[c] = "CLOSED") =>
                /\ Has(out', PublishedMsg("error", "WebSocket connection error"))
                /\ ~isConnected'
      ]_vars
\* the caller's one connection and its first retry have both failed to open
C16_Witness ==
    /\ genCount = 1
    /\ reconnectAttempts = 2
    /\ ~isConnected
    /\ Has(out, PublishedMsg("error", "WebSocket connection error"))

\* C11: the playback pipeline never stalls.  The flag is set only while a
\* playback that was started has not reached its terminal outcome; a step in
\* which a playback reaches a terminal outcome (end, decode failure, decline)
\* leaves the flag false unless it starts the next playback; so the flag is
\* eventually false; and once every playback has reached its terminal outcome,
\* fragments that arrive are eventually started as a playback, unless the
\* caller disconnects first.
C11_NeverStalled ==
    /\ [](isPlaying => audios # {})
    /\ [][(\E a \in audios : a \notin audios' /\ [a EXCEPT !.phase = "playing"] \notin audios')
            => (~isPlaying' \/ Plays(out') # {})]_vars
    /\ (isPlaying ~> ~isPlaying)
    /\ ((audios = {} /\ mp3Buffer # <<>> /\ ws # 0) ~> (Plays(out) # {} \/ ws = 0))
\* the first unit has reached its terminal outcome and a fragment that arrived
\* later has been started as a playback of its own
C11_Witness ==
    /\ audios = {[unit |-> <<2>>, phase |-> "starting"]}
    /\ out = <<Played(<<2>>)>>
    /\ isPlaying
    /\ idleRemaining = -1
    /\ sinceArrival = IdleDelay

\* The samples call k has received from its stream so far, and the samples a
\* step feeds to its callback
Received(buf) == buf.first + buf.len
Fed(k) == Received(audioBuffer'[k]) - Received(audioBuffer[k])

\* C17: every chunk the capture callback hands to sendAudioChunk has exactly
\* chunkSize (8000) samples and is the oldest buffered samples; a block of 8000
\* samples fed to an empty buffer yields one chunk and leaves nothing, a block of
\* 8001 yields one chunk and leaves 1 sample; only a callback hands a chunk over,
\* so no partial chunk is sent, at stop either.
C17_ChunkIsThreshold ==
    /\ [](\A ch \in handed : ch.len = chunkSize)
    /\ [][/\ handed' # handed =>
                \E k \in RecIds :
                    LET chunk == [rec |-> k, first |-> audioBuffer[k].first, len |-> chunkSize]
                    IN  /\ chunk \notin handed
                        /\ handed' = handed \cup {chunk}
                        /\ audioBuffer'[k].first = audioBuffer[k].first + chunkSize
          /\ \A k \in RecIds, n \in {chunkSize, chunkSize + 1} :
                (isRecordingActive[k] /\ audioBuffer[k].len = 0 /\ Fed(k) = n) =>
                    /\ Cardinality(handed') = Cardinality(handed) + 1
                    /\ audioBuffer'[k].len = n - chunkSize
          /\ nblocks' = nblocks => handed' = handed]_vars
\* a block of 8001 samples was cut into one chunk, and recording was stopped
\* with the one sample left
C17_Witness ==
    /\ handed = {[rec |-> 1, first |-> 0, len |-> chunkSize]}
    /\ audioBuffer[1] = [first |-> chunkSize, len |-> 1]
    /\ stopped

\* C18: after each sampling callback the capture buffer holds strictly fewer
\* samples than the chunk threshold, whatever blocks were delivered, the
\* configured blocks of 8192 samples in particular.
C18_RemainderBelowThreshold == \A k \in RecIds : audioBuffer[k].len < chunkSize

\* C19: once stopRecording() has returned, and until startRecording() is called
\* again, no chunk is handed to sendAudioChunk, whatever callbacks still fire,
\* so the samples left in a capture buffer are never sent.
C19_NoChunkAfterStop == [][stopped => handed' = handed]_vars

\* C20: the microphone stream and the audio graph are never leaked: once
\* stopRecording() has run (from the button, handleEndCall or the cleanup of the
\* effect) and no call of startRecording() is still in flight, no stream is
\* live and no audio context is running.
C20_NothingLeaked ==
    (stopped /\ \A k \in RecIds : starts[k] # "acquiring") =>
        \A k \in RecIds : streams[k] # "live" /\ contexts[k] # "running"

\* The state stopRecording() leaves: no stream, no audio context and no
\* processor is held, and the recording flag is false
Released ==
    /\ mediaStreamRef = 0
    /\ audioContextRef = 0
    /\ processorRef = 0
    /\ ~isRecording

\* C21: stopRecording() is idempotent.  Every call leaves no stream, no audio
\* context, no processor and a false recording flag, and raises no fault; called
\* in such a state (right after a call of it, or when capture was never
\* started) it leaves the state as it is.
C21_StopIdempotent ==
    /\ [][(StopRecording \/ EndCall) => (Released' /\ out' = <<>>)]_vars
    /\ [](Released =>
            ENABLED (/\ EndCall
                     /\ out' = <<>>
                     /\ UNCHANGED <<starts, streams, contexts, processors, isRecordingActive,
                                    audioBuffer, mediaStreamRef, audioContextRef, processorRef,
                                    isRecording, nblocks, handed>>))
\* a recording was stopped: its stream, context and processor are released
C21_Witness ==
    /\ stopped
    /\ Released
    /\ streams[1] = "stopped"
    /\ contexts[1] = "closed"
    /\ processors[1] = "disconnected"
    /\ ~isRecordingActive[1]

\* What the last step encoded, if it encoded a chunk
EncodedNow == IF out # <<>> /\ out[1].k = "encode" THEN {out[1]} ELSE {}

\* C22: float-to-PCM encoding in sendAudioChunk.  Every sample maps to an
\* integer in [-32768, 32767]; -1.0 gives -32768, 0.0 gives 0, 1.0 gives 32767;
\* samples below -1.0 give -32768 and samples above 1.0 give 32767 (they are
\* clamped); and the mapping is monotonically non-decreasing.
C22_PcmEncoding ==
    \A e \in EncodedNow :
        /\ Len(e.ints) = Len(e.floats)
        /\ \A i \in 1..Len(e.floats) :
            /\ e.ints[i] \in PcmMin..PcmMax
            /\ e.floats[i] <= -One => e.ints[i] = PcmMin
            /\ e.floats[i] = 0 => e.ints[i] = 0
            /\ e.floats[i] >= One => e.ints[i] = PcmMax
            /\ \A j \in 1..Len(e.floats) :
                e.floats[i] <= e.floats[j] => e.ints[i] <= e.ints[j]
\* the chunk [-1.0, 0.0, 1.0] was encoded by the service as [-32768, 0, 32767]
C22_Witness ==
    out = <<Encoded("nirnay-ui", <<-One, 0, One>>, <<PcmMin, 0, PcmMax>>)>>

\* The audio frames of an outbound log, in the order they were sent
AudioSeq(log) == SelectSeq(log, LAMBDA m : m.type = "audio")

\* C23: outbound chunks are transmitted in capture order.  A connection's audio
\* frames grow only at their end and only by the chunk that was cut in the same
\* step (a chunk cut while the service cannot send is dropped), so the frames on
\* the wire are a subsequence of the chunks cut; and the chunks of a stream on a
\* connection are runs of samples that follow one another in the stream.
C23_CaptureOrder ==
    /\ [][\A c \in ConnIds :
            \/ AudioSeq(sent'[c]) = AudioSeq(sent[c])
            \/ sent'[c] = <<>>
            \/ \E ch \in handed' \ handed :
                AudioSeq(sent'[c]) = Append(AudioSeq(sent[c]), AudioFrame(ch))]_vars
    /\ [](\A c \in ConnIds :
            LET wire == AudioSeq(sent[c])
            IN  \A i, j \in 1..Len(wire) :
                    /\ wire[i].chunk \in handed
                    /\ (i < j /\ wire[i].chunk.rec = wire[j].chunk.rec) =>
                            wire[i].chunk.first + wire[i].chunk.len <= wire[j].chunk.first)
\* the first chunk was cut before the connection was open and was dropped, the
\* next two are on the wire in the order they were cut
C23_Witness ==
    /\ Cardinality(handed) = 3
    /\ \E c \in ConnIds :
        AudioSeq(sent[c]) = <<AudioFrame([rec |-> 1, first |-> chunkSize, len |-> chunkSize]),
                              AudioFrame([rec |-> 1, first |-> 2 * chunkSize, len |-> chunkSize])>>

\* The fragments of a buffer or unit are in the order their frames arrived
\* (a fragment carries the arrival number of its frame), none of them twice
InArrivalOrder(frags) == \A i, j \in 1..Len(frags) : i < j => frags[i] < frags[j]

\* C24: inbound playback fragments are kept in arrival order: the playback
\* buffer and every playable unit hold the fragments in the order their binary
\* frames arrived, also when the frames are Blobs; no fragment is reordered or
\* duplicated.
C24_ArrivalOrder ==
    /\ InArrivalOrder(mp3Buffer)
    /\ \A a \in audios : InArrivalOrder(a.unit)

\* How often the output o holds the entry e, and how often the step that made
\* it called the callback cb with the event e
Count(o, e) == Cardinality({i \in 1..Len(o) : o[i] = e})
CallCount(o, cb, e) ==
    Cardinality({i \in 1..Len(Deliveries(o)) :
                    Deliveries(o)[i].to = cb /\ Deliveries(o)[i].event = e})
PublishedIn(o) == {o[i] : i \in {j \in 1..Len(o) : o[j].k = "publish"}}

\* C25: a fault thrown by a subscriber during notifySubscribers does not keep
\* the event from any other subscribed target (each gets it once, the ones after
\* the faulting one too) and does not reach the publisher: no fault leaves
\* notifySubscribers, and what the publisher does after publishing takes place
\* (ws.onclose schedules its reconnect attempt after it published the close).
C25_FaultIsolated ==
    /\ [](\A e \in PublishedIn(out) : \A i \in 1..Len(subscribers) :
            CallCount(out, subscribers[i], e) = Count(out, e))
    /\ [](~Propagated(out))
    /\ [][\A code \in CloseCodes :
            (/\ Has(out', PublishedClose(code))
             /\ InSeq(subscribers, 1)
             /\ ShouldReconnect(code))
                => (/\ reconnectAttempts' = reconnectAttempts + 1
                    /\ Len(reconnectTimers') = Len(reconnectTimers) + 1
                    /\ ~isConnected')]_vars
\* the connection was lost while the faulting callback was subscribed ahead of
\* another one: the other one was called with the close event and the reconnect
\* attempt is scheduled
C25_Witness ==
    /\ subscribers = <<1, 2>>
    /\ out = <<PublishedClose(GoingAway)>>
    /\ Deliveries(out) = <<Called(1, PublishedClose(GoingAway)), Called(2, PublishedClose(GoingAway))>>
    /\ Deliveries(out)[1].threw
    /\ reconnectAttempts = 1
    /\ Len(reconnectTimers) = 1

\* C26: subscribe and unsubscribe work by identity: whatever calls of the two
\* came before, a publish invokes each callback whose last operation was
\* subscribe exactly once (also when it was subscribed twice) and never a
\* callback whose last operation was unsubscribe, or that was never subscribed.
C26_ByIdentity ==
    \A e \in PublishedIn(out) : \A cb \in Callbacks :
        CallCount(out, cb, e) = IF lastOp[cb].op = "subscribe" THEN Count(out, e) ELSE 0
\* an event was published after one callback was subscribed twice in a row and
\* another one, subscribed before, was unsubscribed
C26_Witness ==
    /\ PublishedIn(out) # {}
    /\ lastOp[2] = [op |-> "subscribe", repeated |-> TRUE]
    /\ lastOp[1].op = "unsubscribe"
    /\ subscribers = <<2>>
    /\ \A e \in PublishedIn(out) : CallCount(out, 2, e) = 1 /\ CallCount(out, 1, e) = 0

\* The Error events of an output
ErrorsIn(o) == SelectSeq(o, LAMBDA e : e.k = "publish" /\ e.type = "error")

\* C27: when the platform declines to start a playback with a NotAllowedError,
\* exactly one Error event is published and it carries the autoplay message, the
\* URL of the unit is released, and the playing flag is cleared (it is set again
\* only by a playback of buffered fragments that starts in the same step);
\* fragments that are buffered when no playback is left are played once their
\* idle window has passed, unless the caller disconnects first.
C27_AutoplayDeclined ==
    /\ [][\A a \in audios :
            PlayRejected(a, "NotAllowedError") =>
                /\ ErrorsIn(out') = <<PublishedMsg("error", AutoplayBlocked)>>
                /\ Count(out', RevokedUrl) = 1
                /\ a \notin audios'
                /\ (isPlaying' => Plays(out') # {})]_vars
    /\ ((audios = {} /\ ~isPlaying /\ mp3Buffer # <<>> /\ ws # 0)
            ~> (Plays(out) # {} \/ ws = 0))
\* the one unit was declined: the event is published, its URL is released, the
\* flag is clear and no playback is left
C27_Witness ==
    /\ audios = {}
    /\ out = <<PublishedMsg("error", AutoplayBlocked), RevokedUrl>>
    /\ ~isPlaying
    /\ mp3Buffer = <<>>
    /\ nfrag = 1

\* C28: immediately after disconnect() returns the playback state is reset: the
\* playback buffer is empty, no idle-flush timer is pending and the playing flag
\* is false.
C28_DisconnectResetsPlayback ==
    [][(Disconnect \/ EndCall) =>
            (mp3Buffer' = <<>> /\ idleRemaining' = -1 /\ ~isPlaying')]_vars
\* disconnect() was called while a unit was playing and a second fragment had
\* just been buffered with its idle-flush timer pending
C28_Witness ==
    /\ ws = 0
    /\ audios = {[unit |-> <<1>>, phase |-> "playing"]}
    /\ nfrag = 2
    /\ sinceArrival = 0
    /\ pendingBlobs = {}
    /\ mp3Buffer = <<>>
    /\ idleRemaining = -1
    /\ ~isPlaying

\* C29: after an explicit disconnect() the session is reset: the service is
\* disconnected and the reconnect-attempt counter is 0, so that the next
\* connect() of the caller has the full budget of 5 reconnect attempts.
C29_DisconnectResetsSession ==
    [][Disconnect => (~isConnected' /\ ws' = 0 /\ reconnectAttempts' = 0)]_vars

\* C30: at most one underlying connection is connecting or open at any time,
\* whatever the caller, the transport and the reconnect timer do: no connection
\* is created while a previous one is still connecting or open.
C30_OneLiveConnection ==
    Cardinality({c \in ConnIds : readyState[c] \in {"CONNECTING", "OPEN"}}) <= 1

\* The last step was a failure of startRecording
MicFailed == out = <<AppError("Failed to access microphone")>>

\* C31: a microphone failure (getUserMedia rejected, or the audio graph cannot
\* be built) aborts only capture: the step leaves the connection state, the
\* reconnect counter, the subscribers, the playback buffer and the playing flag
\* as they are, and afterwards the frames that arrive on the open connection
\* are still routed, and buffered fragments are played when their timer fires.
C31_MicFailureIsLocal ==
    /\ [][\A k \in RecIds :
            (MicDenied(k) \/ GraphFails(k)) => UNCHANGED <<connVars, subVars, playVars>>]_vars
    /\ [](MicFailed /\ ws # 0 /\ readyState[ws] = "OPEN" =>
            /\ \A frame \in TextFrames : ENABLED WsText(ws, frame)
            /\ nfrag < MaxFrags => \A t \in BinaryTypes : ENABLED WsBinary(ws, t))
    /\ [](MicFailed /\ idleRemaining = 0 /\ ~isPlaying /\ mp3Buffer # <<>> =>
            ENABLED (IdleTimerFires /\ Plays(out') # {}))
\* the microphone was refused during a call, with a fragment buffered and its
\* idle-flush timer due
C31_Witness ==
    /\ MicFailed
    /\ ws # 0
    /\ readyState[ws] = "OPEN"
    /\ isConnected
    /\ mp3Buffer = <<1>>
    /\ idleRemaining = 0
    /\ ~isPlaying
    /\ \A k \in RecIds : streams[k] = "none"

\* C32: every connect() settles: its promise is resolved if and only if its
\* connection opened (by the open handler of that connection, and by no other
\* step), and it is rejected when the transport reports an error before the
\* connection opened; so it is not left pending once the transport has reported
\* open or error.
C32_ConnectSettles ==
    [][/\ \A c \in ConnIds : WsOpen(c) => Has(out', PromiseResolved)
       /\ Has(out', PromiseResolved) => \E c \in ConnIds : WsOpen(c)
       /\ \A c \in ConnIds : (WsFail(c) /\ ~wasOpen[c]) => Has(out', PromiseRejected)]_vars

\* C33: when a playback fails to decode, the buffer is cleared (what arrived
\* during the failed playback is dropped), the flag is cleared, no playback
\* starts in that step and no playback is left whose end could run the
\* continuation; from there on a playback is started by the idle-flush timer
\* only, when its 300 ms have run out since the last fragment was appended.
C33_DecodeErrorRecovers ==
    /\ [][\A a \in audios : AudioError(a) =>
              mp3Buffer' = <<>> /\ ~isPlaying' /\ Plays(out') = {} /\ audios' = {}]_vars
    /\ [][(audios = {} /\ Plays(out') # {}) =>
              idleRemaining = 0 /\ idleRemaining' = -1 /\ out' = <<Played(mp3Buffer)>>]_vars

C35_LegacyUnknownIgnored ==
    [][\A c \in ConnIds, frame \in TextFrames :
          (/\ LegacyWsText(c, frame)
           /\ frame.syntax = "ok"
           /\ frame.value.json # "null"
           /\ TypeOf(frame.value) \notin KnownTypes) =>
              Events(out') = <<>>
      ]_vars

\* C36: the connected flag agrees with the current connection in every state:
\* isConnected is true exactly when the socket the service holds (this.ws) is
\* OPEN.
C36_FlagAgrees == isConnected <=> (ws # 0 /\ readyState[ws] = "OPEN")

\* C37: after disconnect(), for as long as the service holds no connection (no
\* later connect() was made), the playback buffer stays empty and no playback
\* starts: not from a fragment whose Blob conversion was in flight, not from a
\* frame delivered late on the closed connection, not from the continuation of
\* a playback that was in progress.
C37_QuietAfterDisconnect ==
    /\ [](ws = 0 => mp3Buffer = <<>>)
    /\ [][ws = 0 /\ ws' = 0 => Plays(out') = {}]_vars

\* The fragments of a sequence of fragments, the units an output plays, and the
\* steps that discard the buffer
FragmentsOf(u) == {u[i] : i \in 1..Len(u)}
PlayedWith(o, f) == {i \in Plays(o) : f \in FragmentsOf(o[i].unit)}
Discards == Disconnect \/ EndCall \/ \E a \in audios : AudioError(a)

\* C38: fragments are conserved. A fragment is buffered once and is in no unit
\* while it is buffered; units share no fragment; a fragment leaves the buffer
\* in the step that plays it, in exactly one unit, or in a step that discards
\* the buffer (a decode failure, disconnect()); a unit is made of buffered
\* fragments only. The buffer is emptied as a whole, and if every playback
\* that started terminates and timers fire it does not stay non-empty forever
\* while the connection is OPEN: no fragment stays buffered forever.
C38_FragmentConservation ==
    /\ [](/\ Cardinality(FragmentsOf(mp3Buffer)) = Len(mp3Buffer)
          /\ \A a \in audios : FragmentsOf(a.unit) \cap FragmentsOf(mp3Buffer) = {}
          /\ \A a, b \in audios : a.unit # b.unit => FragmentsOf(a.unit) \cap FragmentsOf(b.unit) = {})
    /\ [][/\ \A f \in FragmentsOf(mp3Buffer) \ FragmentsOf(mp3Buffer') :
                Cardinality(PlayedWith(out', f)) = 1 \/ (Discards /\ PlayedWith(out', f) = {})
          /\ \A i \in Plays(out') : FragmentsOf(out'[i].unit) \subseteq FragmentsOf(mp3Buffer)
          /\ FragmentsOf(mp3Buffer) \subseteq FragmentsOf(mp3Buffer') \/ mp3Buffer' = <<>>
         ]_vars
    /\ (mp3Buffer # <<>>) ~> (mp3Buffer = <<>> \/ ws = 0 \/ readyState[ws] # "OPEN")
\* the end of the first unit has played, as one unit, the two fragments that
\* were buffered while it played
C38_Witness ==
    /\ out = <<RevokedUrl, Played(<<2, 3>>)>>
    /\ audios = {[unit |-> <<2, 3>>, phase |-> "starting"]}
    /\ mp3Buffer = <<>>
    /\ isPlaying
    /\ ws # 0 /\ readyState[ws] = "OPEN"

\* C39: a disconnect() made while the connection is still being opened ends
\* the attempt for good: whatever close code the transport reports for the
\* aborted attempt, no reconnect timer is scheduled and no connection is
\* made or opened until the caller calls connect() again.
C39_AbortedAttemptStaysDown ==
    [][\A c \in ConnIds :
          (readyState[c] = "CLOSING" /\ ~wasOpen[c] /\ readyState'[c] = "CLOSED") =>
              /\ Len(reconnectTimers') <= Len(reconnectTimers)
              /\ reconnectAttempts' = reconnectAttempts
      ]_vars

\* C40: at most one reconnection timer is pending at any time.
C40_OneReconnectTimer == Len(reconnectTimers) <= 1

====
